---- MODULE Spec2Model ----
(***************************************************************************)
(* A model of dbus-keyring.c: the cookie keyring kept in a file of the     *)
(* user's home directory, shared by every process of that user.            *)
(*                                                                         *)
(* Shared state is the wall clock, the data file and the lock file.  Each  *)
(* keyring instance (one per process here) runs _dbus_keyring_new_homedir  *)
(* once and _dbus_keyring_get_best_key any number of times; every access   *)
(* to the clock, the lock file or the data file is one step, so calls of   *)
(* different instances interleave at exactly those points.                 *)
(*                                                                         *)
(* Strings are sequences of bytes (0..255).  Positions in a string are     *)
(* 0-based offsets as in the C code: the byte at offset i of s is s[i+1].  *)
(***************************************************************************)
EXTENDS Integers, Sequences, FiniteSets, TLC

(***************************************************************************)
(* Program constants.                                                      *)
(***************************************************************************)
NEW_KEY_TIMEOUT_SECONDS == 60*5
EXPIRE_KEYS_TIMEOUT_SECONDS == NEW_KEY_TIMEOUT_SECONDS + (60*2)
MAX_TIME_TRAVEL_SECONDS == 60*5
MAX_LOCK_TIMEOUTS == 32
KEY_LENGTH_BYTES == 24
\* _DBUS_INT_MAX, the largest dbus_int32_t
DBUS_INT_MAX == 2147483647
\* the smallest dbus_int32_t; long has the same 32 bits on the armv7 target
DBUS_INT_MIN == -DBUS_INT_MAX - 1

(***************************************************************************)
(* Byte strings: the DBusString operations the keyring uses.               *)
(***************************************************************************)
\* the smallest number of a non-empty set of integers
Least(S) == CHOOSE i \in S : \A j \in S : i <= j

\* the value of a hexadecimal digit, -1 for any other byte
HexVal(c) ==
  IF c \in 48..57 THEN c - 48
  ELSE IF c \in 97..102 THEN c - 87
  ELSE IF c \in 65..70 THEN c - 55
  ELSE -1

\* the digit of "0123456789abcdef" for a nibble
HexChar(n) == IF n < 10 THEN 48 + n ELSE 87 + n

\* _dbus_string_hex_encode: two lowercase digits per byte, high nibble first
HexEncode(bytes) ==
  [i \in 1..(2 * Len(bytes)) |->
     IF i % 2 = 1 THEN HexChar(bytes[(i + 1) \div 2] \div 16)
     ELSE HexChar(bytes[(i + 1) \div 2] % 16)]

\* _dbus_string_hex_decode from offset start to the end of the string:
\* fails on a byte that is no hexadecimal digit; a digit left alone at the
\* end is the high nibble of a last byte
HexDecode(s, start) ==
  [ok |-> \A i \in (start + 1)..Len(s) : HexVal(s[i]) >= 0,
   bytes |-> [j \in 1..((Len(s) - start + 1) \div 2) |->
                HexVal(s[start + 2 * j - 1]) * 16
                  + (IF start + 2 * j <= Len(s)
                     THEN HexVal(s[start + 2 * j]) ELSE 0)]]

\* the powers of ten a 32-bit integer reaches
Pow10 == <<1, 10, 100, 1000, 10000, 100000, 1000000, 10000000, 100000000,
           1000000000>>

\* the decimal digits of n >= 0
DecDigits(n) ==
  LET k == IF n = 0 THEN 1 ELSE Cardinality({i \in 1..10 : Pow10[i] <= n})
  IN [i \in 1..k |-> 48 + ((n \div Pow10[k - i + 1]) % 10)]

\* the decimal digits of -n for n < 0, computed without negating n
NegDigits(n) ==
  LET m == -(n + 1)
      q == m \div 10
      r == m % 10
  IN IF r < 9
     THEN (IF q = 0 THEN <<>> ELSE DecDigits(q)) \o <<48 + r + 1>>
     ELSE DecDigits(q + 1) \o <<48>>

\* _dbus_string_append_int: the text printf's %ld gives
AppendInt(n) == IF n < 0 THEN <<45>> \o NegDigits(n) ELSE DecDigits(n)

\* _dbus_string_validate_ascii: no NUL and no byte above 0x7f
ValidateAscii(s) == \A i \in 1..Len(s) : s[i] # 0 /\ s[i] <= 127

\* the offset of the first byte at or after start that is not in skipped
SkipBytes(s, start, skipped) ==
  Least({i \in start..(Len(s) - 1) : s[i + 1] \notin skipped}
          \cup {IF start > Len(s) THEN start ELSE Len(s)})

\* _dbus_string_skip_blank: past the spaces and tabs
SkipBlank(s, start) == SkipBytes(s, start, {32, 9})

\* one digit d more on strtol's value a, accumulated as a negative number so
\* that the smallest long is reached without overflow; ovf is ERANGE
StrtolStep(a, d, base) ==
  IF a.ovf \/ a.v < (DBUS_INT_MIN + base - 1) \div base
       \/ a.v * base < DBUS_INT_MIN + d
  THEN [v |-> a.v, ovf |-> TRUE]
  ELSE [v |-> a.v * base - d, ovf |-> FALSE]

\* strtol's value of the digits of s from offset start up to offset end
StrtolValue(s, start, base, end) ==
  LET acc[i \in start..end] ==
        IF i = start THEN [v |-> 0, ovf |-> FALSE]
        ELSE StrtolStep(acc[i - 1], HexVal(s[i]), base)
  IN [next |-> end, acc |-> acc[end].v, ovf |-> acc[end].ovf]

\* strtol's digits from offset start in a base: they end at the first byte
\* that is no digit of the base
StrtolDigits(s, start, base) ==
  StrtolValue(s, start, base,
              Least({i \in start..(Len(s) - 1) :
                       HexVal(s[i + 1]) < 0 \/ HexVal(s[i + 1]) >= base}
                      \cup {Len(s)}))

\* strtol's result for the digits r found from offset p2: nothing is
\* converted without a digit, and the value must fit a long
StrtolResult(start, neg, p2, r) ==
  IF r.next = p2 \/ r.ovf \/ (~neg /\ r.acc = DBUS_INT_MIN)
  THEN [ok |-> FALSE, val |-> 0, next |-> start]
  ELSE [ok |-> TRUE, val |-> IF neg THEN r.acc ELSE -r.acc, next |-> r.next]

\* strtol (p, &end, 0) from the first byte p0 that is no white space: a
\* sign, then base 16 after 0x, 8 after 0 and 10 otherwise
Strtol(s, start, p0) ==
  LET p1 == IF p0 < Len(s) /\ s[p0 + 1] \in {43, 45} THEN p0 + 1 ELSE p0
      zero == p1 < Len(s) /\ s[p1 + 1] = 48
      hex == /\ zero
             /\ p1 + 2 < Len(s)
             /\ s[p1 + 2] \in {120, 88}
             /\ HexVal(s[p1 + 3]) >= 0
  IN StrtolResult(start, p0 < Len(s) /\ s[p0 + 1] = 45,
                  IF hex THEN p1 + 2 ELSE p1,
                  StrtolDigits(s, IF hex THEN p1 + 2 ELSE p1,
                               IF hex THEN 16 ELSE IF zero THEN 8 ELSE 10))

\* _dbus_string_parse_int: strtol from offset start; it fails when no digit
\* was converted or the value does not fit a long
ParseInt(s, start) ==
  Strtol(s, start, SkipBytes(s, start, {32, 9, 10, 11, 12, 13}))

\* the lines _dbus_string_pop_line pops one after the other: the bytes
\* between the newlines, and what follows the last newline if anything does
Lines(contents) ==
  LET nl == {i \in 1..Len(contents) : contents[i] = 10}
      n == Cardinality(nl)
      at == [k \in 1..n |->
               CHOOSE i \in nl : Cardinality({j \in nl : j < i}) = k - 1]
      from(k) == IF k = 1 THEN 1 ELSE at[k - 1] + 1
      whole == [k \in 1..n |-> SubSeq(contents, from(k), at[k] - 1)]
  IN IF from(n + 1) <= Len(contents)
     THEN Append(whole, SubSeq(contents, from(n + 1), Len(contents)))
     ELSE whole

(***************************************************************************)
(* Keys and the key file.  A key is [id, creation_time, secret]; a key     *)
(* list is the pair (keys, n_keys) of the C code as one sequence.          *)
(***************************************************************************)
\* the space and the newline the serializer writes between fields
SPACE == 32
NEWLINE == 10

\* the absence of a key: the NULL of find_key_by_id and find_recent_key
NoKey == [id |-> -1, creation_time |-> -1, secret |-> <<>>]

\* find_key_by_id as it would be if it never found a key: add_new_key would
\* take any id
find_key_by_id_blind(keys, id) == NoKey

\* find_key_by_id: the first key of the list with this id, or NULL
find_key_by_id(keys, id) ==
  LET at == {i \in 1..Len(keys) : keys[i].id = id}
  IN IF at = {} THEN NoKey ELSE keys[Least(at)]

\* the test with <= for <: a key exactly NEW_KEY_TIMEOUT_SECONDS old would
\* still be recent
IsRecentInclusive(tv_sec, creation_time) ==
  (tv_sec - NEW_KEY_TIMEOUT_SECONDS) <= creation_time

\* the test off by one the other way: a key would stop being recent a
\* second early
IsRecentShort(tv_sec, creation_time) ==
  (tv_sec - NEW_KEY_TIMEOUT_SECONDS) < creation_time - 1

\* the test find_recent_key makes on one key at time tv_sec
IsRecent(tv_sec, creation_time) ==
  (tv_sec - NEW_KEY_TIMEOUT_SECONDS) < creation_time

\* find_recent_key: the first key of the list that is recent, or NULL
find_recent_key(keys, tv_sec) ==
  LET at == {i \in 1..Len(keys) : IsRecent(tv_sec, keys[i].creation_time)}
  IN IF at = {} THEN NoKey ELSE keys[Least(at)]

\* the test with NEW_KEY_TIMEOUT_SECONDS for EXPIRE_KEYS_TIMEOUT_SECONDS: a
\* key would be dropped as soon as it is no longer recent
ExpiredEarly(timestamp, now) ==
  \/ timestamp < 0
  \/ (now + MAX_TIME_TRAVEL_SECONDS) < timestamp
  \/ (now - NEW_KEY_TIMEOUT_SECONDS) > timestamp

\* the test with >= for the last >: a key exactly
\* EXPIRE_KEYS_TIMEOUT_SECONDS old would be dropped
ExpiredInclusive(timestamp, now) ==
  \/ timestamp < 0
  \/ (now + MAX_TIME_TRAVEL_SECONDS) < timestamp
  \/ (now - EXPIRE_KEYS_TIMEOUT_SECONDS) >= timestamp

\* the test of the load loop that drops a line for its timestamp
Expired(timestamp, now) ==
  \/ timestamp < 0
  \/ (now + MAX_TIME_TRAVEL_SECONDS) < timestamp
  \/ (now - EXPIRE_KEYS_TIMEOUT_SECONDS) > timestamp

\* what one pass of the load loop does with a line: "skip" (continue), "key"
\* (the key is appended) or "badhex" (the hex decoding failed: goto out)
SkipLine == [kind |-> "skip", key |-> NoKey]

\* the end of a pass: the secret h decoded from the line
LoadSecret(id, timestamp, h) ==
  IF ~h.ok THEN [kind |-> "badhex", key |-> NoKey]
  ELSE [kind |-> "key",
        key |-> [id |-> id, creation_time |-> timestamp, secret |-> h.bytes]]

\* a pass from the timestamp b parsed after the id
LoadTimestamp(line, now, id, b) ==
  IF ~b.ok THEN SkipLine
  ELSE IF Expired(b.val, now) THEN SkipLine
  ELSE IF Len(line) - SkipBlank(line, b.next) = 0 THEN SkipLine
  ELSE LoadSecret(id, b.val, HexDecode(line, SkipBlank(line, b.next)))

\* a pass from the id a parsed at the start of the line
LoadId(line, now, a) ==
  IF ~a.ok THEN SkipLine
  ELSE IF a.val > DBUS_INT_MAX \/ a.val < 0 THEN SkipLine
  ELSE LoadTimestamp(line, now, a.val,
                     ParseInt(line, SkipBlank(line, a.next)))

\* one pass of the load loop on a line
LoadLine(line, now) == LoadId(line, now, ParseInt(line, 0))

\* the passes of the load loop r, one per line: the loop stops with ok FALSE
\* at the first line whose hex decoding fails; allocs counts the lines that
\* reached the reallocation of the key list
LoadResult(r) ==
  LET bad == {k \in 1..Len(r) : r[k].kind = "badhex"}
      done == SubSeq(r, 1, IF bad = {} THEN Len(r) ELSE Least(bad))
      loaded == SelectSeq(done, LAMBDA x : x.kind = "key")
  IN [ok |-> bad = {},
      keys |-> IF bad = {} THEN [k \in 1..Len(loaded) |-> loaded[k].key]
               ELSE <<>>,
      allocs |-> Len(SelectSeq(done, LAMBDA x : x.kind # "skip"))]

\* the passes of the load loop over lines
LoadLines(lines, now) == [k \in 1..Len(lines) |-> LoadLine(lines[k], now)]

\* the load loop over the contents
LoadLoop(contents, now) == LoadResult(LoadLines(Lines(contents), now))

\* the contents as the load loop sees them: a file that is not ASCII is
\* taken as empty
AsciiOrEmpty(contents) == IF ValidateAscii(contents) THEN contents ELSE <<>>

LoadKeys(contents, now) == LoadLoop(AsciiOrEmpty(contents), now)

\* the line the save loop writes for one key
SaveLine(key) ==
  AppendInt(key.id) \o <<SPACE>> \o AppendInt(key.creation_time)
    \o <<SPACE>> \o HexEncode(key.secret) \o <<NEWLINE>>

\* the save loop: the lines of the keys in list order
RECURSIVE SaveKeys(_)
SaveKeys(keys) ==
  IF keys = <<>> THEN <<>> ELSE SaveLine(Head(keys)) \o SaveKeys(Tail(keys))

\* add_new_key's id from four random bytes, before the sign is stripped:
\* s[0] | s[1] << 8 | s[2] << 16 | s[3] << 24 as a 32-bit signed integer
IdFromBytes(s) ==
  s[1] + s[2] * 256 + s[3] * 65536
    + (IF s[4] >= 128 THEN s[4] - 256 ELSE s[4]) * 16777216

\* the ids "if (id < 0) id = - id; _dbus_assert (id >= 0);" can leave.
\* Negating the smallest integer overflows: the build either wraps and goes
\* on with the negative id (assertions compiled out) or aborts in the
\* assertion.
StripSign(id) ==
  IF id = DBUS_INT_MIN
  THEN {[abort |-> FALSE, id |-> DBUS_INT_MIN], [abort |-> TRUE, id |-> DBUS_INT_MIN]}
  ELSE {[abort |-> FALSE, id |-> IF id < 0 THEN -id ELSE id]}

(***************************************************************************)
(* _dbus_keyring_validate_context.                                         *)
(***************************************************************************)
SLASH == 47
BACKSLASH == 92
DOT == 46

\* _dbus_string_find: sub occurs in s at or after the offset start
StringFind(s, start, sub) ==
  \E i \in start..(Len(s) - Len(sub)) : SubSeq(s, i + 1, i + Len(sub)) = sub

\* the validation as it would be if it refused only a dot at the start of
\* the context
validate_context_leading_dot(context) ==
  /\ Len(context) # 0
  /\ ValidateAscii(context)
  /\ ~StringFind(context, 0, <<SLASH>>)
  /\ ~StringFind(context, 0, <<BACKSLASH>>)
  /\ context[1] # DOT

\* _dbus_keyring_validate_context: the context is not empty, is ASCII and
\* holds no slash, no backslash and no dot
validate_context(context) ==
  /\ Len(context) # 0
  /\ ValidateAscii(context)
  /\ ~StringFind(context, 0, <<SLASH>>)
  /\ ~StringFind(context, 0, <<BACKSLASH>>)
  /\ ~StringFind(context, 0, <<DOT>>)

(***************************************************************************)
(* Bounds of the model and the inputs drawn from the environment.          *)
(***************************************************************************)
\* keyring instances, each in a process of its own
NumProcs == 2
Procs == 1..NumProcs

\* the wall clock when the run starts, and how far it may run ahead of that
StartTime == 1000
MaxElapsed == 1

\* how many times in a run the environment may fail a call that could have
\* succeeded: an allocation, or an operation on a file
MaxFaults == 1

\* how many times a process calls _dbus_keyring_get_best_key on its
\* keyring: when the processes run together, and when one runs alone
MaxCalls == 1
MaxCallsSolo == 3

\* and when one runs alone for any context
MaxCallsNew == 1

\* what _dbus_generate_random_bytes (&bytes, 4) may give: the ids 0, 1 (from
\* -1) and the smallest integer
RandomIdBytes == {<<0, 0, 0, 0>>, <<255, 255, 255, 255>>, <<0, 0, 0, 128>>}

\* what _dbus_generate_random_bytes (&bytes, KEY_LENGTH_BYTES) may give
RandomSecrets == {[i \in 1..KEY_LENGTH_BYTES |-> (165 + 16 * i) % 256]}

\* the first context _dbus_keyring_test validates: "foo"
TestContext == <<102, 111, 111>>

\* the contexts _dbus_keyring_test validates: "foo", "org_freedesktop_blah",
\* "", ".foo", "bar.foo", "bar/foo", "bar\foo", "foo\xfa\xf0", "foo\x80",
\* "foo\x7f" and the string of one NUL
TestContexts ==
  {TestContext,
   <<111, 114, 103, 95, 102, 114, 101, 101, 100, 101, 115, 107, 116, 111,
     112, 95, 98, 108, 97, 104>>,
   <<>>,
   <<46, 102, 111, 111>>,
   <<98, 97, 114, 46, 102, 111, 111>>,
   <<98, 97, 114, 47, 102, 111, 111>>,
   <<98, 97, 114, 92, 102, 111, 111>>,
   <<102, 111, 111, 250, 240>>,
   <<102, 111, 111, 128>>,
   <<102, 111, 111, 127>>,
   <<0>>}

\* _dbus_create_file_exclusively: the results it may have.  It never
\* succeeds on a file that exists; on one that does not it fails only by a
\* fault (no directory, no space).
create_file_exclusively(exists, fault) ==
  IF exists THEN {FALSE} ELSE IF fault THEN {TRUE, FALSE} ELSE {TRUE}

\* _dbus_delete_file (unlink): the results it may have.  It fails on a file
\* that does not exist; on one that does it fails only by a fault.
delete_file(exists, fault) ==
  IF ~exists THEN {FALSE} ELSE IF fault THEN {TRUE, FALSE} ELSE {TRUE}

\* _dbus_create_directory: the results it may have.  It fails only by a
\* fault (no permission, no space).
create_directory(fault) == IF fault THEN {TRUE, FALSE} ELSE {TRUE}

\* _dbus_file_get_contents: the results it may have.  It fails when there
\* is no file, and by a fault when there is one; the contents are then
\* empty.  A file without a byte is read like no file.
file_get_contents(f, fault) ==
  IF f = <<>> THEN {[ok |-> FALSE, contents |-> <<>>]}
  ELSE IF fault
  THEN {[ok |-> TRUE, contents |-> f], [ok |-> FALSE, contents |-> <<>>]}
  ELSE {[ok |-> TRUE, contents |-> f]}

VARIABLES
  clock,       \* the wall clock _dbus_get_current_time reads, in seconds
  file,        \* the bytes of the data file (empty when there is none)
  lockfile,    \* whether the lock file exists
  faults,      \* the faults the environment may still inject
  context,     \* the context the keyrings are constructed for
  horizon,     \* the latest time the clock may show in this run
  pc,          \* where each process is
  calls,       \* the calls of _dbus_keyring_get_best_key it has left
  ring,        \* keyring->keys, keyring->n_keys
  add_new,     \* _dbus_keyring_reload's add_new
  now,         \* _dbus_keyring_reload's now
  n_timeouts,  \* _dbus_keyring_lock's n_timeouts
  have_lock,   \* _dbus_keyring_reload's have_lock
  keys,        \* _dbus_keyring_reload's keys, n_keys
  retval,      \* what the call's _dbus_keyring_reload returned
  error,       \* the DBusError of the call
  result,      \* what the last _dbus_keyring_get_best_key returned
  \* history, read by the properties only
  disk,        \* the keys whose lines are in the data file, in file order
  lock_owner,  \* who created the lock file (0: nobody of Procs)
  raced,       \* a stale-lock takeover deleted the lock of a live holder
  ring0,       \* the keyring's list when the reload in progress was called
  wrote,       \* the reload in progress, or the last one, saved the file
  readok,      \* the reload's _dbus_file_get_contents succeeded
  attempts,    \* exclusive creates tried by the lock call in progress
  stale_del,   \* what the lock call's delete of a stale lock file found
  reloads,     \* mutating reloads started by the get_best_key call
  path,        \* how the last get_best_key ended
  prev,        \* the key the last successful get_best_key chose, and when
  saver,       \* who saved the data file last (0: nobody of Procs)
  unlocks,     \* calls of _dbus_keyring_unlock by the last reload
  backward,    \* the clock has been set back
  dir_made     \* what the constructor's _dbus_create_directory returned

shared == <<clock, file, lockfile, faults>>
fixed == <<context, horizon>>
locals == <<pc, calls, ring, add_new, now, n_timeouts, have_lock, keys, retval,
            error, result>>
history == <<disk, lock_owner, raced, ring0, wrote, readok, attempts,
             stale_del, reloads, path, prev, saver, unlocks, backward,
             dir_made>>
vars == <<shared, fixed, locals, history>>

\* between a successful _dbus_keyring_lock and the _dbus_keyring_unlock
InCS(p) == pc[p] \in {"read", "addkey", "save", "unlock"} /\ have_lock[p]

\* the environment may inject one more fault
MayFail == faults > 0

\* the step has injected a fault, or has not
Faulted(f) == faults' = IF f THEN faults - 1 ELSE faults

NoPrev == [id |-> -1, creation_time |-> -1, t |-> -1]

(***************************************************************************)
(* The data files a run starts with.  A file is given as its lines, each   *)
(* with the key it stands for (NoKey for a line that is no well-formed     *)
(* key).                                                                   *)
(***************************************************************************)
\* a key as a process minted it earlier
OldKey(id, creation_time) ==
  [id |-> id, creation_time |-> creation_time,
   secret |-> [i \in 1..KEY_LENGTH_BYTES |-> (77 + i) % 256]]

\* the line the save loop wrote for such a key
GoodLine(id, creation_time) ==
  [text |-> SaveLine(OldKey(id, creation_time)),
   key |-> OldKey(id, creation_time)]

\* a line that is no well-formed key
JunkLine(bytes) == [text |-> bytes \o <<NEWLINE>>, key |-> NoKey]

\* "x 1000 ab", "-5 1000 ab", "2147483648 1000 ab", "1 y ab", "1 1000",
\* "1 1000 zz", a byte that is not ASCII, an empty line
JunkLines ==
  {JunkLine(<<120, 32, 49, 48, 48, 48, 32, 97, 98>>),
   JunkLine(<<45, 53, 32, 49, 48, 48, 48, 32, 97, 98>>),
   JunkLine(<<50, 49, 52, 55, 52, 56, 51, 54, 52, 56, 32, 49, 48, 48, 48, 32,
              97, 98>>),
   JunkLine(<<49, 32, 121, 32, 97, 98>>),
   JunkLine(<<49, 32, 49, 48, 48, 48>>),
   JunkLine(<<49, 32, 49, 48, 48, 48, 32, 122, 122>>),
   JunkLine(<<200>>),
   JunkLine(<<>>)}

\* creation times around each limit the program compares a time with, for
\* every time the clock may show, and a negative one
BoundaryTimes ==
  {StartTime - EXPIRE_KEYS_TIMEOUT_SECONDS + d : d \in (-1)..MaxElapsed}
    \cup {StartTime - NEW_KEY_TIMEOUT_SECONDS + d : d \in 0..(MaxElapsed + 1)}
    \cup {StartTime + MAX_TIME_TRAVEL_SECONDS + d : d \in 0..(MaxElapsed + 1)}
    \cup {-1}

\* the bytes of a file given as its lines
RECURSIVE FileText(_)
FileText(lines) ==
  IF lines = <<>> THEN <<>> ELSE Head(lines).text \o FileText(Tail(lines))

\* the keys of a file given as its lines
FileKeys(lines) ==
  [k \in 1..Len(SelectSeq(lines, LAMBDA l : l.key # NoKey)) |->
     SelectSeq(lines, LAMBDA l : l.key # NoKey)[k].key]

\* the files the cooperating processes can have left: none, or one whose
\* key is EXPIRE_KEYS_TIMEOUT_SECONDS old when the run starts
InitFiles ==
  {<<>>, <<GoodLine(1, StartTime - EXPIRE_KEYS_TIMEOUT_SECONDS)>>}

\* the files a keyring can find when it is constructed: none, one with a
\* key minted at that time, one whose line "1 1000 zz" has no hex secret
NewFiles ==
  {<<>>,
   <<GoodLine(1, StartTime)>>,
   <<JunkLine(<<49, 32, 49, 48, 48, 48, 32, 122, 122>>)>>}

\* the files anybody can have left: keys at the boundary times, junk, and
\* both together
HostileFiles ==
  {<<>>}
    \cup {<<GoodLine(1, t)>> : t \in BoundaryTimes}
    \cup {<<GoodLine(1, t), GoodLine(2, t + 1)>> : t \in BoundaryTimes \ {-1}}
    \cup {<<j>> : j \in JunkLines}
    \cup {<<j, GoodLine(2, StartTime)>> : j \in JunkLines}
    \cup {<<GoodLine(1, StartTime), j>> : j \in JunkLines}

\* the state a run starts in: the file is one of files, the lock file is
\* there or not as locks says (one there at the start was left by a process
\* that died), process p calls get_best_key budget[p] times after it has
\* constructed its keyring (-1: it never runs), the environment may inject
\* nfaults faults
InitState(contexts, far, files, locks, budget, nfaults) ==
  /\ clock = StartTime
  /\ context \in contexts
  /\ horizon = far
  /\ \E f \in files : file = FileText(f) /\ disk = FileKeys(f)
  /\ lockfile \in locks
  /\ faults = nfaults
  /\ pc = [p \in Procs |-> IF budget[p] >= 0 THEN "new" ELSE "gone"]
  /\ calls = [p \in Procs |-> IF budget[p] >= 0 THEN budget[p] ELSE 0]
  /\ ring = [p \in Procs |-> <<>>]
  /\ add_new = [p \in Procs |-> FALSE]
  /\ now = [p \in Procs |-> 0]
  /\ n_timeouts = [p \in Procs |-> 0]
  /\ have_lock = [p \in Procs |-> FALSE]
  /\ keys = [p \in Procs |-> <<>>]
  /\ retval = [p \in Procs |-> "none"]
  /\ error = [p \in Procs |-> "none"]
  /\ result = [p \in Procs |-> -1]
  /\ lock_owner = 0
  /\ raced = FALSE
  /\ ring0 = [p \in Procs |-> <<>>]
  /\ wrote = [p \in Procs |-> FALSE]
  /\ readok = [p \in Procs |-> FALSE]
  /\ attempts = [p \in Procs |-> 0]
  /\ stale_del = [p \in Procs |-> "none"]
  /\ reloads = [p \in Procs |-> 0]
  /\ path = [p \in Procs |-> "none"]
  /\ prev = [p \in Procs |-> NoPrev]
  /\ saver = 0
  /\ unlocks = [p \in Procs |-> 0]
  /\ backward = FALSE
  /\ dir_made = [p \in Procs |-> "none"]

\* the processes together on a file they can have left: either all of them
\* call get_best_key and nothing fails, or one does while the others only
\* construct their keyring, and the environment may fail
Init ==
  \/ InitState({TestContext}, StartTime + MaxElapsed, InitFiles, {FALSE},
               [p \in Procs |-> MaxCalls], 0)
  \/ InitState({TestContext}, StartTime + MaxElapsed, InitFiles, BOOLEAN,
               [p \in Procs |-> IF p = 1 THEN MaxCalls ELSE 0], MaxFaults)

\* one process alone, on any file
InitSolo ==
  InitState({TestContext}, StartTime + MaxElapsed, HostileFiles, BOOLEAN,
            [p \in Procs |-> IF p = 1 THEN MaxCallsSolo ELSE -1], MaxFaults)

\* one process alone, for any context, on no file or a file with a key just
\* minted, in a run long enough for a key to get old
InitNew ==
  InitState(TestContexts, StartTime + NEW_KEY_TIMEOUT_SECONDS + MaxElapsed,
            NewFiles, BOOLEAN,
            [p \in Procs |-> IF p = 1 THEN MaxCallsNew ELSE -1], MaxFaults)

(***************************************************************************)
(* _dbus_keyring_new_homedir, up to its call of _dbus_keyring_reload.      *)
(***************************************************************************)
Construct(p) ==
  /\ pc[p] = "new"
  /\ IF validate_context(context)
     THEN /\ pc' = [pc EXCEPT ![p] = "reload"]
          /\ error' = [error EXCEPT ![p] = "none"]
     ELSE /\ pc' = [pc EXCEPT ![p] = "nokeyring"]
          /\ error' = [error EXCEPT ![p] = "context"]
  /\ add_new' = [add_new EXCEPT ![p] = FALSE]
  /\ UNCHANGED <<shared, fixed, calls, ring, now, n_timeouts, have_lock,
                 keys, retval, result, history>>

\* the constructor after its reload, as it would be if it gave no keyring
\* when the reload fails
AfterFirstReloadChecked(rv) == IF rv THEN "mkdir" ELSE "nokeyring"

\* where the constructor goes when its reload has returned rv: on to
\* _dbus_create_directory, whatever rv is
AfterFirstReload(rv) == "mkdir"

\* the constructor's _dbus_create_directory, whose failure is only logged,
\* and the return of the keyring
CreateDirectory(p) ==
  /\ pc[p] = "mkdir"
  /\ \E ok \in create_directory(MayFail) :
       /\ Faulted(~ok)
       /\ dir_made' = [dir_made EXCEPT ![p] = IF ok THEN "made" ELSE "failed"]
  /\ pc' = [pc EXCEPT ![p] = "ready"]
  /\ UNCHANGED <<clock, file, lockfile, fixed, calls, ring, add_new, now,
                 n_timeouts, have_lock, keys, retval, error, result, disk,
                 lock_owner, raced, ring0, wrote, readok, attempts, stale_del,
                 reloads, path, prev, saver, unlocks, backward>>

(***************************************************************************)
(* _dbus_keyring_get_best_key, up to its call of _dbus_keyring_reload:     *)
(* the scan of the keys in memory at the current time.                     *)
(***************************************************************************)
GetBestKey(p) ==
  /\ pc[p] = "ready"
  /\ calls[p] > 0
  /\ calls' = [calls EXCEPT ![p] = @ - 1]
  /\ error' = [error EXCEPT ![p] = "none"]
  /\ retval' = [retval EXCEPT ![p] = "none"]
  /\ reloads' = [reloads EXCEPT ![p] = 0]
  /\ \E key \in {find_recent_key(ring[p], clock)} :
       IF key # NoKey
       THEN /\ result' = [result EXCEPT ![p] = key.id]
            /\ path' = [path EXCEPT ![p] = "hit"]
            /\ prev' = [prev EXCEPT ![p] =
                          [id |-> key.id, creation_time |-> key.creation_time,
                           t |-> clock]]
            /\ UNCHANGED <<pc, add_new>>
       ELSE /\ pc' = [pc EXCEPT ![p] = "reload"]
            /\ add_new' = [add_new EXCEPT ![p] = TRUE]
            /\ path' = [path EXCEPT ![p] = "none"]
            /\ prev' = [prev EXCEPT ![p] = NoPrev]
            /\ UNCHANGED result
  /\ UNCHANGED <<shared, fixed, ring, now, n_timeouts, have_lock, keys,
                 disk, lock_owner, raced, ring0, wrote, readok, attempts,
                 stale_del, saver, unlocks, backward, dir_made>>

\* back in the caller when _dbus_keyring_reload has returned rv: the
\* constructor goes on whatever rv is, get_best_key returns -1 on FALSE
\* and scans again on TRUE
Returned(p, rv) ==
  /\ pc' = [pc EXCEPT ![p] =
              IF ~add_new[p] THEN AfterFirstReload(rv)
              ELSE IF rv THEN "rescan" ELSE "ready"]
  /\ result' = [result EXCEPT ![p] = IF add_new[p] /\ ~rv THEN -1 ELSE @]
  /\ path' = [path EXCEPT ![p] = IF add_new[p] /\ ~rv THEN "failed" ELSE @]
  /\ prev' = [prev EXCEPT ![p] = IF add_new[p] /\ ~rv THEN NoPrev ELSE @]

(***************************************************************************)
(* _dbus_keyring_reload.                                                   *)
(***************************************************************************)
\* the reload as it would be if it took the lock whatever add_new is
NeedsLockAlways(adding) == TRUE

\* the reload as it would be if it never took the lock
NeedsLockNever(adding) == FALSE

\* whether the reload takes the lock before it reads the file: if (add_new)
NeedsLock(adding) == adding

\* its entry: the two strings are initialized, now is read from the clock
ReloadBegin(p) ==
  /\ pc[p] = "reload"
  /\ ring0' = [ring0 EXCEPT ![p] = ring[p]]
  /\ wrote' = [wrote EXCEPT ![p] = FALSE]
  /\ readok' = [readok EXCEPT ![p] = FALSE]
  /\ attempts' = [attempts EXCEPT ![p] = 0]
  /\ stale_del' = [stale_del EXCEPT ![p] = "none"]
  /\ reloads' = [reloads EXCEPT ![p] = IF add_new[p] THEN @ + 1 ELSE @]
  /\ unlocks' = [unlocks EXCEPT ![p] = 0]
  /\ \/ /\ MayFail
        /\ Faulted(TRUE)
        /\ error' = [error EXCEPT ![p] = "nomem"]
        /\ retval' = [retval EXCEPT ![p] = "FALSE"]
        /\ Returned(p, FALSE)
        /\ UNCHANGED <<now, n_timeouts, have_lock, keys>>
     \/ /\ Faulted(FALSE)
        /\ now' = [now EXCEPT ![p] = clock]
        /\ keys' = [keys EXCEPT ![p] = <<>>]
        /\ n_timeouts' = [n_timeouts EXCEPT ![p] = 0]
        /\ have_lock' = [have_lock EXCEPT ![p] = FALSE]
        /\ retval' = [retval EXCEPT ![p] = "none"]
        /\ pc' = [pc EXCEPT ![p] =
                    IF NeedsLock(add_new[p]) THEN "lock" ELSE "read"]
        /\ UNCHANGED <<error, result, path, prev>>
  /\ UNCHANGED <<clock, file, lockfile, fixed, calls, ring, add_new, disk,
                 lock_owner, raced, saver, backward, dir_made>>

\* _dbus_keyring_lock has created the lock file and returns TRUE
LockTaken(p) ==
  /\ lockfile' = TRUE
  /\ lock_owner' = p
  /\ have_lock' = [have_lock EXCEPT ![p] = TRUE]
  /\ n_timeouts' = [n_timeouts EXCEPT ![p] = 0]
  /\ pc' = [pc EXCEPT ![p] = "read"]
  /\ UNCHANGED <<retval, error, result, path, prev>>

\* the failure as it would be if the reload set no error for it
LockFailedSilent(p) ==
  /\ retval' = [retval EXCEPT ![p] = "FALSE"]
  /\ n_timeouts' = [n_timeouts EXCEPT ![p] = 0]
  /\ Returned(p, FALSE)
  /\ UNCHANGED <<have_lock, error>>

\* the failure as it would be if the reload went on to its unlock as a
\* holder of the lock
LockFailedHolds(p) ==
  /\ error' = [error EXCEPT ![p] = "lock"]
  /\ retval' = [retval EXCEPT ![p] = "FALSE"]
  /\ n_timeouts' = [n_timeouts EXCEPT ![p] = 0]
  /\ have_lock' = [have_lock EXCEPT ![p] = TRUE]
  /\ pc' = [pc EXCEPT ![p] = "unlock"]
  /\ UNCHANGED <<result, path, prev>>

\* _dbus_keyring_lock returns FALSE, and _dbus_keyring_reload with it
LockFailed(p) ==
  /\ error' = [error EXCEPT ![p] = "lock"]
  /\ retval' = [retval EXCEPT ![p] = "FALSE"]
  /\ n_timeouts' = [n_timeouts EXCEPT ![p] = 0]
  /\ Returned(p, FALSE)
  /\ UNCHANGED have_lock

\* the loop's pass as it would be if it left the loop whatever the create
\* returned
LockLoopPassUnchecked(p, ok) == LockTaken(p)

\* what a pass of _dbus_keyring_lock's loop does with the result of its
\* exclusive create: break, or sleep and count a timeout
LockLoopPass(p, ok) ==
  IF ok
  THEN LockTaken(p)
  ELSE /\ n_timeouts' = [n_timeouts EXCEPT ![p] = @ + 1]
       /\ pc' = [pc EXCEPT ![p] =
                   IF n_timeouts[p] + 1 = MAX_LOCK_TIMEOUTS
                   THEN "stale" ELSE "lock"]
       /\ UNCHANGED <<lockfile, lock_owner, have_lock, retval, error,
                      result, path, prev>>

\* one pass of _dbus_keyring_lock's loop: an exclusive create and, when it
\* fails, a sleep
LockAttempt(p) ==
  /\ pc[p] = "lock"
  /\ n_timeouts[p] < MAX_LOCK_TIMEOUTS
  /\ attempts' = [attempts EXCEPT ![p] = @ + 1]
  /\ \E ok \in create_file_exclusively(lockfile, MayFail) :
       /\ Faulted(~ok /\ ~lockfile)
       /\ LockLoopPass(p, ok)
  /\ UNCHANGED <<clock, file, fixed, calls, ring, add_new, now, keys, disk,
                 raced, ring0, wrote, readok, stale_del, reloads, saver,
                 unlocks, backward, dir_made>>

\* the lock call as it would be if it gave up after MAX_LOCK_TIMEOUTS
\* timeouts without deleting the lock file
StaleGiveUp(p) ==
  /\ pc[p] = "stale"
  /\ Faulted(FALSE)
  /\ stale_del' = [stale_del EXCEPT ![p] = "error"]
  /\ LockFailed(p)
  /\ UNCHANGED <<clock, file, lockfile, fixed, calls, ring, add_new, now,
                 keys, disk, lock_owner, raced, ring0, wrote, readok,
                 attempts, reloads, saver, unlocks, backward, dir_made>>

\* after MAX_LOCK_TIMEOUTS timeouts: the delete of the lock file
StaleDelete(p) ==
  /\ pc[p] = "stale"
  /\ \E ok \in delete_file(lockfile, MayFail) :
       /\ Faulted(~ok /\ lockfile)
       /\ IF ok
          THEN /\ lockfile' = FALSE
               /\ lock_owner' = 0
               /\ raced' = (raced \/ (lock_owner \in Procs /\ InCS(lock_owner)))
               /\ stale_del' = [stale_del EXCEPT ![p] = "removed"]
               /\ pc' = [pc EXCEPT ![p] = "recreate"]
               /\ UNCHANGED <<n_timeouts, have_lock, retval, error, result,
                              path, prev>>
          ELSE /\ stale_del' = [stale_del EXCEPT ![p] =
                                  IF lockfile THEN "error" ELSE "missing"]
               /\ LockFailed(p)
               /\ UNCHANGED <<lockfile, lock_owner, raced>>
  /\ UNCHANGED <<clock, file, fixed, calls, ring, add_new, now, keys, disk,
                 ring0, wrote, readok, attempts, reloads, saver, unlocks,
                 backward, dir_made>>

\* the exclusive create that follows the delete
StaleCreate(p) ==
  /\ pc[p] = "recreate"
  /\ attempts' = [attempts EXCEPT ![p] = @ + 1]
  /\ \E ok \in create_file_exclusively(lockfile, MayFail) :
       /\ Faulted(~ok /\ ~lockfile)
       /\ IF ok
          THEN LockTaken(p)
          ELSE LockFailed(p) /\ UNCHANGED <<lockfile, lock_owner>>
  /\ UNCHANGED <<clock, file, fixed, calls, ring, add_new, now, keys, disk,
                 raced, ring0, wrote, readok, stale_del, reloads, saver,
                 unlocks, backward, dir_made>>

\* the read of the data file and the load loop; without add_new the new
\* list is committed and the reload returns
ReadFile(p) ==
  /\ pc[p] = "read"
  /\ \E rd \in file_get_contents(file, MayFail), oom \in BOOLEAN :
       \E r \in {LoadKeys(rd.contents, now[p])} :
          /\ oom => (MayFail /\ r.allocs > 0)
          /\ Faulted(oom \/ (~rd.ok /\ file # <<>>))
          /\ readok' = [readok EXCEPT ![p] = rd.ok]
          /\ IF oom \/ ~r.ok
             THEN /\ error' = [error EXCEPT ![p] =
                                 IF oom THEN "nomem" ELSE "badhex"]
                  /\ retval' = [retval EXCEPT ![p] = "FALSE"]
                  /\ keys' = [keys EXCEPT ![p] = <<>>]
                  /\ IF have_lock[p]
                     THEN /\ pc' = [pc EXCEPT ![p] = "unlock"]
                          /\ UNCHANGED <<result, path, prev>>
                     ELSE Returned(p, FALSE)
                  /\ UNCHANGED <<ring, ring0>>
             ELSE IF add_new[p]
             THEN /\ keys' = [keys EXCEPT ![p] = r.keys]
                  /\ pc' = [pc EXCEPT ![p] = "addkey"]
                  /\ UNCHANGED <<ring, ring0, retval, error, result, path,
                                 prev>>
             ELSE /\ ring' = [ring EXCEPT ![p] = r.keys]
                  /\ ring0' = [ring0 EXCEPT ![p] = r.keys]
                  /\ keys' = [keys EXCEPT ![p] = <<>>]
                  /\ retval' = [retval EXCEPT ![p] = "TRUE"]
                  /\ Returned(p, TRUE)
                  /\ UNCHANGED error
  /\ UNCHANGED <<clock, file, lockfile, fixed, calls, add_new, now,
                 n_timeouts, have_lock, disk, lock_owner, raced, wrote,
                 attempts, stale_del, reloads, saver, unlocks, backward,
                 dir_made>>

\* the timestamp as it would be if add_new_key took the reload's now
NewKeyTimeCaptured(reload_now, current_time) == reload_now

\* the timestamp of a new key: add_new_key reads the clock itself
NewKeyTime(reload_now, current_time) == current_time

\* the list as it would be if the new key were put in front of it
PrependKey(list, key) == <<key>> \o list

\* the list add_new_key gives back: the new key is in the slot that the
\* reallocation added after the last one
AppendKey(list, key) == Append(list, key)

\* add_new_key: a random id that no loaded key has, a random secret, the
\* time read from the clock
AddNewKey(p) ==
  /\ pc[p] = "addkey"
  /\ \/ /\ MayFail
        /\ Faulted(TRUE)
        /\ error' = [error EXCEPT ![p] = "nomem"]
        /\ retval' = [retval EXCEPT ![p] = "FALSE"]
        /\ keys' = [keys EXCEPT ![p] = <<>>]
        /\ pc' = [pc EXCEPT ![p] = "unlock"]
     \/ /\ Faulted(FALSE)
        /\ \E s \in RandomIdBytes, secret \in RandomSecrets :
             \E o \in StripSign(IdFromBytes(s)) :
               IF o.abort
               THEN /\ pc' = [pc EXCEPT ![p] = "aborted"]
                    /\ keys' = [keys EXCEPT ![p] = <<>>]
                    /\ UNCHANGED <<retval, error>>
               ELSE IF find_key_by_id(keys[p], o.id) # NoKey
               THEN UNCHANGED <<pc, keys, retval, error>>
               ELSE /\ keys' = [keys EXCEPT ![p] =
                                  AppendKey(@, [id |-> o.id,
                                                creation_time |->
                                                  NewKeyTime(now[p], clock),
                                                secret |-> secret])]
                    /\ pc' = [pc EXCEPT ![p] = "save"]
                    /\ UNCHANGED <<retval, error>>
  /\ UNCHANGED <<clock, file, lockfile, fixed, calls, ring, add_new, now,
                 n_timeouts, have_lock, result, history>>

\* the failure as it would be if the new list were committed to the
\* keyring before the save
SaveFailedCommitted(p) ==
  /\ MayFail
  /\ Faulted(TRUE)
  /\ \E e \in {"nomem", "save"} : error' = [error EXCEPT ![p] = e]
  /\ retval' = [retval EXCEPT ![p] = "FALSE"]
  /\ ring' = [ring EXCEPT ![p] = keys[p]]
  /\ UNCHANGED <<file, disk, ring0, wrote, saver>>

\* the save loop or _dbus_string_save_to_file fails: goto out
SaveFailed(p) ==
  /\ MayFail
  /\ Faulted(TRUE)
  /\ \E e \in {"nomem", "save"} : error' = [error EXCEPT ![p] = e]
  /\ retval' = [retval EXCEPT ![p] = "FALSE"]
  /\ UNCHANGED <<file, ring, disk, ring0, wrote, saver>>

\* the save loop and _dbus_string_save_to_file, then the commit of the new
\* list to the keyring
SaveFile(p) ==
  /\ pc[p] = "save"
  /\ \/ SaveFailed(p)
     \/ /\ Faulted(FALSE)
        /\ file' = SaveKeys(keys[p])
        /\ disk' = keys[p]
        /\ ring' = [ring EXCEPT ![p] = keys[p]]
        /\ ring0' = [ring0 EXCEPT ![p] = keys[p]]
        /\ wrote' = [wrote EXCEPT ![p] = TRUE]
        /\ saver' = p
        /\ retval' = [retval EXCEPT ![p] = "TRUE"]
        /\ UNCHANGED error
  /\ keys' = [keys EXCEPT ![p] = <<>>]
  /\ pc' = [pc EXCEPT ![p] = "unlock"]
  /\ UNCHANGED <<clock, lockfile, fixed, calls, add_new, now, n_timeouts,
                 have_lock, result, lock_owner, raced, readok, attempts,
                 stale_del, reloads, path, prev, unlocks, backward, dir_made>>

\* out, as it would be if the reload returned without the release
UnlockSkipped(p) ==
  /\ pc[p] = "unlock"
  /\ have_lock[p]
  /\ have_lock' = [have_lock EXCEPT ![p] = FALSE]
  /\ Returned(p, retval[p] = "TRUE")
  /\ UNCHANGED <<shared, fixed, calls, ring, add_new, now, n_timeouts, keys,
                 retval, error, disk, lock_owner, raced, ring0, wrote, readok,
                 attempts, stale_del, reloads, saver, unlocks, backward,
                 dir_made>>

\* out: _dbus_keyring_unlock, and the return of the reload
Unlock(p) ==
  /\ pc[p] = "unlock"
  /\ have_lock[p]
  /\ \E ok \in delete_file(lockfile, MayFail) :
       /\ Faulted(~ok /\ lockfile)
       /\ lockfile' = IF ok THEN FALSE ELSE lockfile
       /\ lock_owner' = IF ok THEN 0 ELSE lock_owner
  /\ unlocks' = [unlocks EXCEPT ![p] = @ + 1]
  /\ have_lock' = [have_lock EXCEPT ![p] = FALSE]
  /\ Returned(p, retval[p] = "TRUE")
  /\ UNCHANGED <<clock, file, fixed, calls, ring, add_new, now, n_timeouts,
                 keys, retval, error, disk, raced, ring0, wrote, readok,
                 attempts, stale_del, reloads, saver, backward, dir_made>>

(***************************************************************************)
(* _dbus_keyring_get_best_key after a reload that returned TRUE: the       *)
(* second scan.                                                            *)
(***************************************************************************)
\* the second scan as it would be if it set no error when it finds no key
RescanNoError == "none"

\* the error the second scan sets when it finds no key: "No recent-enough
\* key found in keyring, and unable to create a new key"
RescanError == "norecent"

Rescan(p) ==
  /\ pc[p] = "rescan"
  /\ \E key \in {find_recent_key(ring[p], clock)} :
       IF key # NoKey
       THEN /\ result' = [result EXCEPT ![p] = key.id]
            /\ path' = [path EXCEPT ![p] = "minted"]
            /\ prev' = [prev EXCEPT ![p] =
                          [id |-> key.id, creation_time |-> key.creation_time,
                           t |-> clock]]
            /\ UNCHANGED error
       ELSE /\ result' = [result EXCEPT ![p] = -1]
            /\ error' = [error EXCEPT ![p] = RescanError]
            /\ path' = [path EXCEPT ![p] = "failed"]
            /\ prev' = [prev EXCEPT ![p] = NoPrev]
  /\ pc' = [pc EXCEPT ![p] = "ready"]
  /\ UNCHANGED <<shared, fixed, calls, ring, add_new, now, n_timeouts,
                 have_lock, keys, retval, disk, lock_owner, raced, ring0,
                 wrote, readok, attempts, stale_del, reloads, saver, unlocks,
                 backward, dir_made>>

(***************************************************************************)
(* The wall clock: it runs, and it can be set back.                        *)
(***************************************************************************)
\* the times the clock shows when a process looks at it: the first seconds
\* of the run, and the same seconds NEW_KEY_TIMEOUT_SECONDS later
Times ==
  {StartTime + d : d \in 0..MaxElapsed}
    \cup {StartTime + NEW_KEY_TIMEOUT_SECONDS + d : d \in 0..MaxElapsed}

ClockForward ==
  /\ \E t \in Times : t > clock /\ t <= horizon /\ clock' = t
  /\ UNCHANGED <<file, lockfile, faults, fixed, locals, history>>

ClockBack ==
  /\ \E t \in Times : t < clock /\ clock' = t
  /\ backward' = TRUE
  /\ UNCHANGED <<file, lockfile, faults, fixed, locals, disk, lock_owner,
                 raced, ring0, wrote, readok, attempts, stale_del, reloads,
                 path, prev, saver, unlocks, dir_made>>

Next ==
  \/ \E p \in Procs : Construct(p)
  \/ \E p \in Procs : CreateDirectory(p)
  \/ \E p \in Procs : GetBestKey(p)
  \/ \E p \in Procs : ReloadBegin(p)
  \/ \E p \in Procs : LockAttempt(p)
  \/ \E p \in Procs : StaleDelete(p)
  \/ \E p \in Procs : StaleCreate(p)
  \/ \E p \in Procs : ReadFile(p)
  \/ \E p \in Procs : AddNewKey(p)
  \/ \E p \in Procs : SaveFile(p)
  \/ \E p \in Procs : Unlock(p)
  \/ \E p \in Procs : Rescan(p)
  \/ ClockForward
  \/ ClockBack

\* the cooperating processes on a file they left
Spec == Init /\ [][Next]_vars

\* one keyring instance alone on any file
SpecSolo == InitSolo /\ [][Next]_vars

\* one keyring instance alone, constructed for any context
SpecNew == InitNew /\ [][Next]_vars

\* a process that is inside _dbus_keyring_lock goes on: the loop sleeps
\* 250 ms between its creates and nothing else makes it wait
LockProgress(p) ==
  /\ WF_vars(LockAttempt(p))
  /\ WF_vars(StaleDelete(p))
  /\ WF_vars(StaleCreate(p))

\* one keyring instance alone that runs on while it is taking the lock
SpecLive == InitNew /\ [][Next]_vars /\ \A p \in Procs : LockProgress(p)

(***************************************************************************)
(* Properties.                                                             *)
(***************************************************************************)
\* the elements of a sequence
Range(s) == {s[i] : i \in 1..Len(s)}

\* the keys of a list have pairwise distinct ids
DistinctIds(ks) == \A i, j \in 1..Len(ks) : ks[i].id = ks[j].id => i = j

\* a key that is well formed and not expired at time t
NotExpiredAt(k, t) ==
  /\ k.id >= 0
  /\ 0 <= k.creation_time
  /\ t - 420 <= k.creation_time
  /\ k.creation_time <= t + 300

\* the step is process p's scan at the entry of get_best_key
CallsGetBestKey(p) == pc[p] = "ready" /\ calls'[p] = calls[p] - 1

\* C1, as corrected: as long as no stale-lock takeover has deleted the lock
\* file of a process that is still between its lock and its unlock, at most
\* one process is between a successful lock and its unlock.
C1_MutualExclusion ==
  ~raced => \A p, q \in Procs : (InCS(p) /\ InCS(q)) => p = q

\* C1's case: one process is inside while another has been refused the lock
C1_Witness ==
  /\ ~raced
  /\ \E p, q \in Procs : InCS(p) /\ pc[q] = "lock" /\ n_timeouts[q] > 0

\* C1 as stated: at most one process is ever between lock and unlock
C1_Original == \A p, q \in Procs : (InCS(p) /\ InCS(q)) => p = q

C3_FailureAtomicity ==
  \A p \in Procs :
    retval[p] = "FALSE"
      => (ring[p] = ring0[p] /\ (error[p] = "lock" => ~wrote[p]))

\* C3's case: the mutating reload of a keyring that holds a key has loaded
\* the file, added a key and failed in the save
C3_Witness ==
  \E p \in Procs :
    /\ retval[p] = "FALSE" /\ pc[p] = "ready" /\ ring[p] # <<>>
    /\ error[p] = "save"

\* C4: get_best_key returns the id of the first key of the list with
\* creation_time > now - 300 and starts no reload, takes no lock and writes
\* no file; without such a key it starts a mutating reload, and it has run
\* exactly one when it scans again.
C4_Selection ==
  [][\A p \in Procs :
       /\ CallsGetBestKey(p) =>
            IF \E i \in 1..Len(ring[p]) : ring[p][i].creation_time > clock - 300
            THEN /\ result'[p] =
                      ring[p][Least({i \in 1..Len(ring[p]) :
                                ring[p][i].creation_time > clock - 300})].id
                 /\ pc'[p] = "ready"
                 /\ reloads'[p] = 0
                 /\ UNCHANGED <<file, lockfile, ring>>
            ELSE pc'[p] = "reload" /\ add_new'[p]
       /\ pc'[p] = "rescan" => reloads'[p] = 1]_vars

\* C4's case: the first key of the list is exactly 300 s old, the second is
\* younger, and get_best_key has returned the second
C4_Witness ==
  \E p \in Procs :
    /\ path[p] = "hit" /\ Len(ring[p]) = 2
    /\ ring[p][1].creation_time = prev[p].t - 300
    /\ result[p] = ring[p][2].id /\ result[p] # ring[p][1].id

\* C5, as corrected: when get_best_key has succeeded and is called again
\* while the key it returned still has creation_time > now - 300, the clock
\* not having moved backwards, the second call returns the same id and
\* leaves the data file, the lock file and the keyring's list unchanged.
C5_Idempotence ==
  [][\A p \in Procs :
       (/\ CallsGetBestKey(p)
        /\ prev[p] # NoPrev
        /\ clock >= prev[p].t
        /\ prev[p].creation_time > clock - 300)
         => /\ result'[p] = prev[p].id
            /\ path'[p] = "hit"
            /\ pc'[p] = "ready"
            /\ UNCHANGED <<file, lockfile, ring>>]_vars

\* C5's case: a later call, a second after the run started, has returned a
\* key that was then 299 s old
C5_Witness ==
  \E p \in Procs :
    /\ path[p] = "hit" /\ calls[p] <= MaxCallsSolo - 2
    /\ prev[p].t > StartTime
    /\ prev[p].creation_time = prev[p].t - 299

\* C5 as stated: a second call less than 300 s after a successful one
\* returns the same id and starts no reload
C5_Original ==
  [][\A p \in Procs :
       (/\ CallsGetBestKey(p)
        /\ prev[p] # NoPrev
        /\ clock >= prev[p].t
        /\ clock - prev[p].t < 300)
         => /\ result'[p] = prev[p].id
            /\ path'[p] = "hit"
            /\ pc'[p] = "ready"
            /\ UNCHANGED <<file, lockfile, ring>>]_vars

\* C6 as stated: when a process has minted and saved a key, the list that
\* another process's constructor loads from the file, at a time when none
\* of the saved keys has expired, is the first process's list.
C6_RoundTrip ==
  [][\A p, q \in Procs :
       (/\ p # q
        /\ saver = p /\ ring[p] = disk
        /\ pc[q] = "read" /\ ~add_new[q]
        /\ readok'[q] /\ retval'[q] = "TRUE"
        /\ \A i \in 1..Len(disk) :
             /\ 0 <= disk[i].creation_time
             /\ now[q] - 420 <= disk[i].creation_time
             /\ disk[i].creation_time <= now[q] + 300)
         => ring'[q] = ring[p]]_vars

\* C7: the keys of every keyring's list have pairwise distinct ids, so have
\* the keys of the list a reload is building, add_new_key's key included,
\* and so have the keys of the data file.
C7_UniqueIds ==
  /\ \A p \in Procs : DistinctIds(ring[p]) /\ DistinctIds(keys[p])
  /\ DistinctIds(disk)

\* C7's case: the file holds three keys, two of them minted in this run
C7_Witness ==
  /\ Len(disk) >= 3
  /\ \E p \in Procs : wrote[p] /\ Len(ring[p]) >= 3

\* C8: the load loop of a reload, mutating or not, that has read an ASCII
\* file and runs to its end loads exactly the well-formed lines whose
\* timestamp ts has ts >= 0 and now - 420 <= ts <= now + 300, in file order,
\* now being the time the reload captured at its start.
C8_ExpiryFilter ==
  [][\A p \in Procs :
       (/\ pc[p] = "read"
        /\ pc'[p] # "read"
        /\ readok'[p]
        /\ retval'[p] # "FALSE"
        /\ ValidateAscii(file))
         => (IF add_new[p] THEN keys'[p] ELSE ring'[p])
              = SelectSeq(disk, LAMBDA k : NotExpiredAt(k, now[p]))]_vars

\* C8's case: of the two keys of the file the constructor has dropped the
\* one 421 s old and loaded the one exactly 420 s old
C8_Witness ==
  \E p \in Procs :
    /\ pc[p] = "ready" /\ retval[p] = "TRUE" /\ readok[p] /\ ~add_new[p]
    /\ Len(disk) = 2 /\ disk[1].creation_time = now[p] - 421
    /\ Len(ring[p]) = 1 /\ ring[p][1].creation_time = now[p] - 420

\* C9 as stated: _dbus_keyring_reload returns FALSE only when an allocation,
\* the lock or the save has failed, never for what the data file holds.
C9_NoErrorFromData ==
  \A p \in Procs :
    retval[p] = "FALSE" => error[p] \in {"nomem", "lock", "save"}

\* C10 as stated: when the delete after MAX_LOCK_TIMEOUTS failed creates
\* finds that the lock file no longer exists, _dbus_keyring_lock still makes
\* one more exclusive create.
C10_FinalCreate ==
  \A p \in Procs :
    stale_del[p] = "missing" => attempts[p] = MAX_LOCK_TIMEOUTS + 1

\* process p is inside a call of _dbus_keyring_reload
InReload(p) ==
  pc[p] \in {"reload", "lock", "stale", "recreate", "read", "addkey", "save",
             "unlock"}

\* the step is the return of process p's _dbus_keyring_reload to its caller
ReloadReturns(p) == InReload(p) /\ pc'[p] \in {"mkdir", "ready", "rescan"}

\* the step is one of process p
StepOf(p) == pc'[p] # pc[p] \/ attempts'[p] # attempts[p]

\* C11: a reload that holds the lock calls _dbus_keyring_unlock exactly once
\* before it returns, on success and on every failure; one that does not
\* hold it never calls it; the call deletes the lock file or fails to, and
\* leaves the reload's return value and error as they were.
C11_LockRelease ==
  [][\A p \in Procs :
       /\ ReloadReturns(p) => unlocks'[p] = (IF have_lock[p] THEN 1 ELSE 0)
       /\ unlocks'[p] > unlocks[p]
            => /\ have_lock[p] /\ ReloadReturns(p)
               /\ lockfile' = FALSE \/ lockfile' = lockfile
               /\ retval'[p] = retval[p] /\ error'[p] = error[p]
               /\ pc'[p] = (IF retval[p] = "TRUE" THEN "rescan" ELSE "ready")]_vars

\* C11's case: a mutating reload whose load loop failed on a hex secret has
\* released the lock it held and returned FALSE with that error
C11_Witness ==
  \E p \in Procs :
    /\ pc[p] = "ready" /\ add_new[p] /\ unlocks[p] = 1
    /\ retval[p] = "FALSE" /\ error[p] = "badhex" /\ ~lockfile

\* C12: a step of a process whose reload is not mutating, the constructor's
\* included, leaves the lock file and the data file as they are; the data
\* file changes only in the save of a reload with add_new.
C12_PassiveReads ==
  [][/\ \A p \in Procs :
          (StepOf(p) /\ ~add_new[p]) => UNCHANGED <<file, lockfile>>
     /\ file' # file
          => \E p \in Procs : StepOf(p) /\ add_new[p] /\ pc[p] = "save"]_vars

\* C12's case: the constructor's reload has dropped the expired first line
\* of a file of two keys, and the file still holds both
C12_Witness ==
  \E p \in Procs :
    /\ pc[p] = "ready" /\ ~add_new[p] /\ retval[p] = "TRUE" /\ readok[p]
    /\ Len(disk) = 2 /\ Len(ring[p]) = 1 /\ ring[p][1] = disk[2]
    /\ file = SaveKeys(disk)

\* C13: the constructor gives a keyring exactly when the context passes
\* _dbus_keyring_validate_context; for another context it gives none and
\* sets the error; when its reload or its _dbus_create_directory fails it
\* still gives the keyring, with an empty list if the reload failed.
C13_Construction ==
  \A p \in Procs :
    /\ pc[p] = "nokeyring"
         => (~validate_context(context) /\ error[p] = "context")
    /\ pc[p] \notin {"gone", "new", "nokeyring"} => validate_context(context)
    /\ (pc[p] = "ready" /\ ~add_new[p] /\ retval[p] = "FALSE")
         => ring[p] = <<>>

\* C13's case: the reload failed on the file, the directory could not be
\* created, and the constructor has returned the keyring
C13_Witness ==
  \E p \in Procs :
    /\ pc[p] = "ready" /\ ~add_new[p] /\ calls[p] = MaxCallsNew
    /\ retval[p] = "FALSE" /\ dir_made[p] = "failed" /\ ring[p] = <<>>

\* C14: when _dbus_keyring_get_best_key has returned, its result is -1
\* exactly when the error is set; after a failed reload the result is -1
\* and the error is the reload's; after a successful reload whose second
\* scan found no key the result is -1 and the error is the one of the scan;
\* any other result is the id of a key of the keyring's list.
C14_ResultAndError ==
  \A p \in Procs :
    (pc[p] = "ready" /\ path[p] # "none")
      => /\ result[p] = -1 <=> error[p] # "none"
         /\ retval[p] = "FALSE"
              => (result[p] = -1
                    /\ error[p] \in {"nomem", "lock", "badhex", "save"})
         /\ (retval[p] = "TRUE" /\ path[p] = "failed")
              => (result[p] = -1 /\ error[p] = "norecent")
         /\ result[p] # -1 => \E k \in Range(ring[p]) : k.id = result[p]

\* C14's case: the reload minted a key and returned TRUE, the key was
\* NEW_KEY_TIMEOUT_SECONDS old at the second scan, and get_best_key has
\* returned -1 with the error of the scan
C14_Witness ==
  \E p \in Procs :
    /\ pc[p] = "ready" /\ path[p] = "failed" /\ retval[p] = "TRUE"
    /\ wrote[p] /\ ring[p] # <<>>
    /\ result[p] = -1 /\ error[p] = "norecent"

\* a context that is not empty, whose bytes are all in 0x01..0x7f and none
\* of them '/', '\' or '.'
ContextOK(c) ==
  /\ c # <<>>
  /\ \A i \in 1..Len(c) : c[i] \in 1..127 /\ c[i] \notin {47, 92, 46}

\* C15: _dbus_keyring_validate_context returns TRUE exactly for the
\* contexts that are not empty, have all bytes in 0x01..0x7f and hold no
\* '/', no '\' and no '.', and the constructor that called it has gone on
\* exactly for those.
C15_ValidateContext ==
  /\ validate_context(context) <=> ContextOK(context)
  /\ \A p \in Procs :
       pc[p] \notin {"gone", "new"}
         => (pc[p] # "nokeyring" <=> ContextOK(context))

\* C15's case: the context "foo\x7f" has been accepted
C15_Witness ==
  /\ context = <<102, 111, 111, 127>>
  /\ \E p \in Procs : pc[p] = "ready"

\* C16 as stated: with a clock that has not been set back and no stale-lock
\* takeover, the key whose id get_best_key returned to a process at time t
\* is in the data file after every successful save that any process makes
\* at a time up to t + (EXPIRE_KEYS_TIMEOUT_SECONDS - NEW_KEY_TIMEOUT_SECONDS).
C16_AuthWindow ==
  [][\A p, q \in Procs :
       (/\ pc[q] = "save" /\ wrote'[q]
        /\ ~raced /\ ~backward
        /\ prev[p] # NoPrev
        /\ clock <= prev[p].t
                      + (EXPIRE_KEYS_TIMEOUT_SECONDS - NEW_KEY_TIMEOUT_SECONDS))
         => \E k \in Range(disk') : k.id = prev[p].id]_vars

\* C17, as corrected: the key a mutating reload mints has the creation_time
\* that add_new_key reads from the clock when it generates the key.
C17_Timestamp ==
  [][\A p \in Procs :
       (pc[p] = "addkey" /\ pc'[p] = "save")
         => keys'[p][Len(keys'[p])].creation_time = clock]_vars

\* C17's case: the clock moved on after the reload captured its now, and
\* the new key has the later time
C17_Witness ==
  \E p \in Procs :
    /\ pc[p] = "save" /\ keys[p] # <<>>
    /\ now[p] < clock
    /\ keys[p][Len(keys[p])].creation_time = clock

\* C17 as stated: the key a mutating reload mints has the creation_time now
\* that the reload captured at its start
C17_Original ==
  [][\A p \in Procs :
       (pc[p] = "addkey" /\ pc'[p] = "save")
         => keys'[p][Len(keys'[p])].creation_time = now[p]]_vars

\* C18 as stated: every id add_new_key assigns, and every result of
\* get_best_key other than -1, is greater than 0.
C18_PositiveIds ==
  \A p \in Procs :
    /\ pc[p] = "save" => keys[p][Len(keys[p])].id > 0
    /\ (pc[p] = "ready" /\ path[p] # "none" /\ result[p] # -1)
         => result[p] > 0

\* C19 as stated: the id add_new_key computes from its four random bytes is
\* in 0..2^31-1, and its assertion id >= 0 never fails.
C19_NonNegativeId ==
  \A p \in Procs :
    /\ pc[p] # "aborted"
    /\ pc[p] = "save" => keys[p][Len(keys[p])].id \in 0..DBUS_INT_MAX

\* C20: _dbus_keyring_reload, called with a clear error, returns TRUE with
\* no error set or FALSE with an error set.
C20_ResultOrError ==
  [][\A p \in Procs :
       ReloadReturns(p)
         => \/ retval'[p] = "TRUE" /\ error'[p] = "none"
            \/ retval'[p] = "FALSE" /\ error'[p] # "none"]_vars

\* C20's case: the create that follows the delete of a stale lock file has
\* failed, and the reload has returned FALSE with the error of the lock
C20_Witness ==
  \E p \in Procs :
    /\ pc[p] = "ready" /\ retval[p] = "FALSE" /\ error[p] = "lock"
    /\ stale_del[p] = "removed" /\ attempts[p] = MAX_LOCK_TIMEOUTS + 1

\* the places of a mutating reload in the order of its steps
StepRank(at) ==
  CASE at \in {"lock", "stale", "recreate"} -> 1
    [] at = "read" -> 2
    [] at = "addkey" -> 3
    [] at = "save" -> 4
    [] at = "unlock" -> 5
    [] OTHER -> 6

\* C21: a mutating reload goes from the lock to the read, the new key, the
\* save and the release in that order, leaving out steps only to get to the
\* release or to return; it reads and saves only while it holds the lock it
\* took itself and has not released; and the data file is written only by
\* a process that holds the lock of its reload.
C21_Ordering ==
  [][/\ \A p \in Procs :
          (add_new[p] /\ InReload(p) /\ pc[p] # "reload" /\ StepOf(p))
            => /\ StepRank(pc'[p]) >= StepRank(pc[p])
               /\ pc[p] \in {"read", "addkey", "save"}
                    => (have_lock[p] /\ unlocks[p] = 0
                          /\ attempts[p] > 0)
               /\ pc[p] = "read" => pc'[p] \in {"addkey", "unlock"}
               /\ pc[p] = "addkey" =>
                    pc'[p] \in {"addkey", "save", "unlock", "aborted"}
               /\ pc[p] = "save" => pc'[p] = "unlock"
               /\ pc[p] = "unlock" => unlocks'[p] = 1
     /\ file' # file
          => \E p \in Procs : StepOf(p) /\ pc[p] = "save" /\ have_lock[p]]_vars

\* C21's case: a mutating reload has taken the lock, read the file and
\* saved it, and is about to release the lock it still holds
C21_Witness ==
  \E p \in Procs :
    /\ pc[p] = "unlock" /\ add_new[p] /\ have_lock[p] /\ lock_owner = p
    /\ readok[p] /\ wrote[p] /\ unlocks[p] = 0

\* the keys of the data file that the load of process p's reload keeps: none
\* when the read failed or the file is not ASCII, otherwise the well-formed
\* ones that are not expired at the reload's now, in file order
Survivors(p) ==
  IF readok[p] /\ ValidateAscii(file)
  THEN SelectSeq(disk, LAMBDA k : NotExpiredAt(k, now[p]))
  ELSE <<>>

\* C22: the save of a mutating reload writes the keys that survived the load
\* of the file, in file order, and after them one new key, whose secret has
\* KEY_LENGTH_BYTES bytes and whose id no survivor has; the keyring's list
\* becomes that sequence; on an empty or missing file that is one key.
C22_ContentWritten ==
  [][\A p \in Procs :
       (pc[p] = "save" /\ wrote'[p])
         => /\ Len(keys[p]) = Len(Survivors(p)) + 1
            /\ SubSeq(keys[p], 1, Len(Survivors(p))) = Survivors(p)
            /\ Len(keys[p][Len(keys[p])].secret) = KEY_LENGTH_BYTES
            /\ \A i \in 1..Len(Survivors(p)) :
                 Survivors(p)[i].id # keys[p][Len(keys[p])].id
            /\ file' = SaveKeys(keys[p])
            /\ Len(Lines(file')) = Len(keys[p])
            /\ disk' = keys[p]
            /\ ring'[p] = keys[p]
            /\ file = <<>> => Len(ring'[p]) = 1]_vars

\* C22's case: the file held two keys that both survived, and the reload
\* has saved them in their order with its new key after them
C22_Witness ==
  \E p \in Procs :
    /\ pc[p] = "unlock" /\ wrote[p] /\ readok[p]
    /\ Len(disk) = 3 /\ ring[p] = disk
    /\ disk[1].id = 1 /\ disk[2].id = 2 /\ disk[3].creation_time >= now[p]

\* process p has come to _dbus_keyring_lock, the lock file of a holder that
\* is gone is there, and the primitives work from now on
FindsStaleLock(p) ==
  /\ pc[p] = "lock" /\ n_timeouts[p] = 0
  /\ lockfile /\ lock_owner = 0
  /\ faults = 0

\* C23: _dbus_keyring_lock never makes more than MAX_LOCK_TIMEOUTS + 1
\* exclusive creates and returns when it has made that many; and a process
\* alone that finds the lock file of a holder that is gone, its delete and
\* create working, gets the lock in the end.
C23_StaleRecovery ==
  /\ [](\A p \in Procs :
          /\ attempts[p] <= MAX_LOCK_TIMEOUTS + 1
          /\ attempts[p] = MAX_LOCK_TIMEOUTS + 1
               => pc[p] \notin {"lock", "stale", "recreate"})
  /\ \A p \in Procs :
       FindsStaleLock(p) ~> (have_lock[p] /\ lock_owner = p)

\* C23's case: after MAX_LOCK_TIMEOUTS failed creates the process has deleted
\* the lock file that was left and has created its own
C23_Witness ==
  \E p \in Procs :
    /\ have_lock[p] /\ lock_owner = p /\ pc[p] = "read"
    /\ stale_del[p] = "removed" /\ attempts[p] = MAX_LOCK_TIMEOUTS + 1

\* the step is process p's _dbus_keyring_unlock and it deletes a lock file
Releases(p) ==
  /\ pc[p] = "unlock" /\ unlocks'[p] = unlocks[p] + 1
  /\ lockfile /\ ~lockfile'

\* C24: as long as no process has deleted, as stale, the lock file of a
\* process that was still between its lock and its unlock, the lock file that
\* a _dbus_keyring_unlock deletes is the one its process created, and only an
\* unlock or a stale delete removes a lock file.
C24_OwnLock ==
  [][/\ \A p \in Procs : (Releases(p) /\ ~raced) => lock_owner = p
     /\ (lockfile /\ ~lockfile') =>
          \E p \in Procs : Releases(p) \/ (pc[p] = "stale" /\ StepOf(p))]_vars

\* C24's case: with another process in the run that has been contending for
\* the lock and no stale takeover of a held lock, a process has saved under
\* its lock and has deleted its lock file
C24_Witness ==
  \E p, q \in Procs :
    /\ p # q /\ ~raced
    /\ unlocks[p] = 1 /\ wrote[p] /\ ~have_lock[p] /\ pc[p] = "ready"
    /\ attempts[q] > 0 /\ ~lockfile

\* C24 as stated, in every interleaving: the lock file that a
\* _dbus_keyring_unlock deletes is the one its process created
C24_Original ==
  [][\A p \in Procs : Releases(p) => lock_owner = p]_vars

\* the step is process p's second scan in _dbus_keyring_get_best_key, the
\* clock has not been set back, and the key the reload minted was stamped
\* less than NEW_KEY_TIMEOUT_SECONDS ago
RescansInTime(p) ==
  /\ pc[p] = "rescan" /\ pc'[p] = "ready"
  /\ ~backward
  /\ ring[p] # <<>>
  /\ clock - ring[p][Len(ring[p])].creation_time < NEW_KEY_TIMEOUT_SECONDS

\* C25 as stated: with a clock that is not set back and less than
\* NEW_KEY_TIMEOUT_SECONDS between the stamping of the new key and the second
\* scan, _dbus_keyring_get_best_key returns a non-negative id after a
\* successful mutating reload and sets no error.
C25_RescanFinds ==
  [][\A p \in Procs :
       RescansInTime(p) => (result'[p] >= 0 /\ error'[p] = "none")]_vars
====
